---- MODULE Spec2Model ----
(***************************************************************************)
(* The monitoring service of src/monitoring/monitor.js: the in-memory      *)
(* `metrics` object (service table, system counters, sample history), the  *)
(* log file, the HTTP handlers, the periodic sampler and the shutdown       *)
(* handler.  Node runs every handler and every timer callback to           *)
(* completion on one thread, so each of them is one atomic action.         *)
(***************************************************************************)
EXTENDS Integers, Sequences, FiniteSets

(***************************************************************************)
(* Program constants.                                                      *)
(***************************************************************************)
HistoryCapacity == 100
MetricsWindow == 20
SampleInterval == 30
DefaultLogLimit == 100

(***************************************************************************)
(* Bound of the model: how many steps (requests, sampler ticks, log file    *)
(* outages, signals) a run takes once its quiet period is over.            *)
(***************************************************************************)
MaxSteps == 4

\* the dashboard: how many requests it receives in all
MaxDashRequests == 3

\* the dashboard: the handlers that can be in flight at once
Slots == {"first", "second"}

(***************************************************************************)
(* Inputs.  A JavaScript value is modelled by its JSON text ("42" is the   *)
(* number 42), and Undefined is the value of a property that is missing.   *)
(* A request body lists the properties the handler or the interface table  *)
(* names.  "constructor" is a property every JavaScript object inherits    *)
(* from Object.prototype, and a legal service id like any other string.    *)
(* The id "__proto__", whose assignment replaces the prototype of the      *)
(* table instead of adding a property to it, is not among the ids.         *)
(***************************************************************************)
Undefined == "undefined"
ObjectPrototypeKeys == {"constructor"}
Ids == {"github", "constructor"}
Names == {"GitHub MCP"}
Statuses == {"healthy", "degraded"}

NoBody ==
  [serverId |-> Undefined, serverName |-> Undefined, status |-> Undefined,
   responseTime |-> Undefined, error |-> Undefined,
   serviceId |-> Undefined, serviceName |-> Undefined]

ValidBodies ==
  { [NoBody EXCEPT !.serverId = i, !.serverName = n, !.status = s,
                   !.responseTime = x[1], !.error = x[2]] :
      i \in Ids, n \in Names, s \in Statuses,
      x \in {<<"42", Undefined>>, <<Undefined, "timeout">>} }

InvalidBodies ==
  { [NoBody EXCEPT !.serverId = "", !.serverName = "GitHub MCP", !.status = "healthy"],
    [NoBody EXCEPT !.serverId = "github", !.status = "healthy"],
    [NoBody EXCEPT !.serverId = "github", !.serverName = "GitHub MCP",
                   !.responseTime = "42"],
    [NoBody EXCEPT !.serviceId = "github", !.serviceName = "GitHub MCP",
                   !.status = "healthy", !.responseTime = "42"] }

Bodies == ValidBodies \cup InvalidBodies

VARIABLES
  servers,        \* metrics.servers: own properties of the service table
  totalRequests,  \* metrics.systemStats.totalRequests
  errorCount,     \* metrics.systemStats.errorCount
  startTime,      \* metrics.systemStats.startTime
  lastUpdate,     \* metrics.systemStats.lastUpdate
  history,        \* metrics.history
  logFile,        \* the lines of /logs/ai-first-monitoring.log
  sinkUp,         \* whether the log file can be appended to and read
  now,            \* Date.now()
  phase,          \* "starting", "listening", "closing", "exited"
  req,            \* the last request received, and how many were received
  resp,           \* the response to it
  captured,       \* every sample collectMetrics ever built, in capture order
  accepted,       \* per service id, the number of accepted reports
  consoleErrors,  \* the 'Failed to write to log file' lines log() wrote to the console
  budget          \* steps of each kind the environment still takes

vars == <<servers, totalRequests, errorCount, startTime, lastUpdate, history,
          logFile, sinkUp, now, phase, req, resp, captured, accepted, budget,
          consoleErrors>>

\* The dashboard service (src/dashboard/server.js) is another process, with
\* a state of its own.
VARIABLES
  mcpServers,     \* mcpServers: per configured key, the status of the entry
  objectStatus,   \* the status property written on a value found through
                  \* Object.prototype instead of on an entry of mcpServers
  handlers,       \* the async request handlers in flight, each at its await
  dashResp,       \* the last response the dashboard sent
  dashServed      \* the number of requests the dashboard has received

dvars == <<mcpServers, objectStatus, handlers, dashResp, dashServed>>


(***************************************************************************)
(* JavaScript helpers.                                                     *)
(***************************************************************************)
\* !v for the values of the model: undefined and the empty string are falsy
Falsy(v) == v = Undefined \/ v = ""

\* Array.prototype.slice(start) with one argument
Slice(s, start) ==
  LET from == IF start < 0
              THEN (IF Len(s) + start < 0 THEN 0 ELSE Len(s) + start)
              ELSE (IF start > Len(s) THEN Len(s) ELSE start)
  IN SubSeq(s, from + 1, Len(s))

\* obj[key] on the service table: an own property, else a property inherited
\* from Object.prototype (a truthy value that is no service record), else
\* undefined
Lookup(table, key) ==
  IF key \in DOMAIN table THEN "own"
  ELSE IF key \in ObjectPrototypeKeys THEN "inherited"
  ELSE "undefined"

\* Object.keys(metrics.servers).length
ServerCount(table) == Cardinality(DOMAIN table)

\* variant: counts the healthy checks instead of the healthy services
RECURSIVE SumChecks(_, _)
SumChecks(table, keys) ==
  IF keys = {} THEN 0
  ELSE LET k == CHOOSE x \in keys : TRUE
       IN table[k].checksCount + SumChecks(table, keys \ {k})

HealthyChecks(table) ==
  SumChecks(table, {k \in DOMAIN table : table[k].status = "healthy"})

\* Object.values(metrics.servers).filter(s => s.status === 'healthy').length
HealthyCount(table) == Cardinality({k \in DOMAIN table : table[k].status = "healthy"})

(***************************************************************************)
(* log(level, message, data) at time t: one line appended to the log file; *)
(* a failed write is reported on the console and swallowed.                *)
(***************************************************************************)
LogEntry(t, level, message) == [timestamp |-> t, level |-> level, message |-> message]

Log(file, t, level, message) ==
  IF sinkUp THEN Append(file, LogEntry(t, level, message)) ELSE file

\* the catch branch of log(), taken by each of `calls` calls of log() when
\* the file cannot be written: console.error('Failed to write to log file:')
ConsoleError(calls) ==
  consoleErrors' = consoleErrors + (IF sinkUp THEN 0 ELSE calls)

(***************************************************************************)
(* collectMetrics(): the sample built from the state, and the history      *)
(* after push and shift.                                                   *)
(***************************************************************************)
CurrentMetrics(t, total) ==
  [timestamp |-> t,
   uptime |-> t - startTime,
   totalRequests |-> total,
   errorCount |-> errorCount,
   servers |-> ServerCount(servers),
   healthyServers |-> HealthyCount(servers)]

\* variant: push without shift
PushOnly(h, sample) == Append(h, sample)

\* variant: the newest sample is dropped instead of the oldest
PushPop(h, sample) ==
  LET pushed == Append(h, sample)
  IN IF Len(pushed) > HistoryCapacity THEN SubSeq(pushed, 1, Len(pushed) - 1) ELSE pushed

\* variant: the sample is put at the front (unshift) and the last one dropped
PushUnshift(h, sample) ==
  LET pushed == <<sample>> \o h
  IN IF Len(pushed) > HistoryCapacity THEN SubSeq(pushed, 1, HistoryCapacity) ELSE pushed

PushShift(h, sample) ==
  LET pushed == Append(h, sample)
  IN IF Len(pushed) > HistoryCapacity THEN Tail(pushed) ELSE pushed

\* variant: the sample is built and logged but never pushed
CollectMetricsNoPush(t, total, file) ==
  /\ history' = history
  /\ captured' = Append(captured, CurrentMetrics(t, total))
  /\ lastUpdate' = t
  /\ logFile' = Log(file, t, "info", "Metrics collected")

\* collectMetrics() called at time t while totalRequests has the value
\* `total` and the log file holds `file`
CollectMetrics(t, total, file) ==
  /\ history' = PushShift(history, CurrentMetrics(t, total))
  /\ captured' = Append(captured, CurrentMetrics(t, total))
  /\ lastUpdate' = t
  /\ logFile' = Log(file, t, "info", "Metrics collected")

(***************************************************************************)
(* The runs of the model.                                                  *)
(***************************************************************************)
\* A run starts with a quiet period in which only the sampler runs: no
\* tick at all, or as many as bring the history close to the window of the
\* read APIs, or close to its capacity.
Budgets ==
  { [quiet |-> 0, steps |-> MaxSteps],
    [quiet |-> MetricsWindow - 2, steps |-> MaxSteps - 1],
    [quiet |-> HistoryCapacity - 2, steps |-> MaxSteps - 1] }

Spend == budget.steps > 0 /\ budget' = [budget EXCEPT !.steps = @ - 1]

Serving == phase \in {"listening", "closing"} /\ budget.quiet = 0

NoRequest == [n |-> 0, op |-> "none", arg |-> <<>>]
NoResponse == [op |-> "none", status |-> 0, body |-> <<>>]

(***************************************************************************)
(* The dashboard after construction: six configured servers in the order   *)
(* of the object literal, each with status unknown; no request in flight.  *)
(***************************************************************************)
ServerKeys == <<"github", "sqlite", "filesystem", "memory", "postgres", "web">>

Configured == {ServerKeys[i] : i \in 1..Len(ServerKeys)}

Idle == [kind |-> "idle", at |-> 0, id |-> Undefined]

NoDashResponse == [op |-> "none", status |-> 0, body |-> <<>>]

DashboardInit ==
  /\ mcpServers = [k \in Configured |-> [status |-> "unknown"]]
  /\ objectStatus = Undefined
  /\ handlers = [h \in Slots |-> Idle]
  /\ dashResp = NoDashResponse
  /\ dashServed = 0

Init ==
  /\ servers = <<>>
  /\ totalRequests = 0
  /\ errorCount = 0
  /\ startTime = 0
  /\ lastUpdate = 0
  /\ history = <<>>
  /\ logFile = <<>>
  /\ sinkUp = TRUE
  /\ now = 0
  /\ phase = "starting"
  /\ req = NoRequest
  /\ resp = NoResponse
  /\ captured = <<>>
  /\ accepted = [i \in Ids |-> 0]
  /\ budget \in Budgets
  /\ consoleErrors = 0
  /\ DashboardInit

(***************************************************************************)
(* app.listen callback: two log lines and the initial sample.              *)
(***************************************************************************)
Listen ==
  /\ phase = "starting"
  /\ phase' = "listening"
  /\ CollectMetrics(now, totalRequests,
       Log(Log(logFile, now, "info", "server running"), now, "info", "Monitoring URL"))
  /\ UNCHANGED <<servers, totalRequests, errorCount, startTime, sinkUp, now, req, resp,
                 accepted, budget>>
  /\ ConsoleError(3)
  /\ UNCHANGED dvars

(***************************************************************************)
(* setInterval(collectMetrics, 30000): the timer fires one interval after  *)
(* it was armed.                                                           *)
(***************************************************************************)
\* variant: log() has no try/catch around appendFileSync, so a failed write
\* throws out of the timer callback after the sample was pushed, and the
\* uncaught exception ends the process
SamplerTickThrows ==
  /\ phase \in {"listening", "closing"}
  /\ IF budget.quiet > 0 THEN budget' = [budget EXCEPT !.quiet = @ - 1] ELSE Spend
  /\ now' = now + SampleInterval
  /\ CollectMetrics(now', totalRequests, logFile)
  /\ phase' = IF sinkUp THEN phase ELSE "exited"
  /\ UNCHANGED <<servers, totalRequests, errorCount, startTime, sinkUp, req, resp,
                 accepted, consoleErrors>>
  /\ UNCHANGED dvars

SamplerTick ==
  /\ phase \in {"listening", "closing"}
  /\ IF budget.quiet > 0 THEN budget' = [budget EXCEPT !.quiet = @ - 1] ELSE Spend
  /\ now' = now + SampleInterval
  /\ CollectMetrics(now', totalRequests, logFile)
  /\ UNCHANGED <<servers, totalRequests, errorCount, startTime, sinkUp, phase, req, resp,
                 accepted>>
  /\ ConsoleError(1)
  /\ UNCHANGED dvars

(***************************************************************************)
(* POST /api/health-check                                                  *)
(***************************************************************************)
\* variant: the check forgets `status`
RejectedUnlessIdAndName(body) ==
  Falsy(body.serverId) \/ Falsy(body.serverName)

Rejected(body) ==
  Falsy(body.serverId) \/ Falsy(body.serverName) \/ Falsy(body.status)

\* variant: the count does not carry over from the stored record
NextChecksCountFresh(table, id) == 1

\* (metrics.servers[serverId]?.checksCount || 0) + 1
NextChecksCount(table, id) ==
  (IF Lookup(table, id) = "own" THEN table[id].checksCount ELSE 0) + 1

\* variant: the record keeps no responseTime
ServerRecordNoResponseTime(table, body, t) ==
  [name |-> body.serverName,
   status |-> body.status,
   responseTime |-> Undefined,
   error |-> body.error,
   lastChecked |-> t,
   checksCount |-> NextChecksCount(table, body.serverId)]

\* variant: the first report for an id creates the record with status unknown
ServerRecordUnknownFirst(table, body, t) ==
  [name |-> body.serverName,
   status |-> IF body.serverId \in DOMAIN table THEN body.status ELSE "unknown",
   responseTime |-> body.responseTime,
   error |-> body.error,
   lastChecked |-> t,
   checksCount |-> NextChecksCount(table, body.serverId)]

\* variant: a field the report omits keeps the value of the stored record
ServerRecordMerge(table, body, t) ==
  LET known == body.serverId \in DOMAIN table
  IN [name |-> body.serverName,
      status |-> body.status,
      responseTime |-> IF body.responseTime = Undefined /\ known
                       THEN table[body.serverId].responseTime ELSE body.responseTime,
      error |-> IF body.error = Undefined /\ known
                THEN table[body.serverId].error ELSE body.error,
      lastChecked |-> t,
      checksCount |-> NextChecksCount(table, body.serverId)]

ServerRecord(table, body, t) ==
  [name |-> body.serverName,
   status |-> body.status,
   responseTime |-> body.responseTime,
   error |-> body.error,
   lastChecked |-> t,
   checksCount |-> NextChecksCount(table, body.serverId)]

\* metrics.servers[id] = rec
Assign(table, id, rec) ==
  [k \in DOMAIN table \cup {id} |-> IF k = id THEN rec ELSE table[k]]

\* variant: log() has no try/catch around appendFileSync, so a failed write
\* throws out of the handler after the record was assigned and the
\* error-handling middleware answers
PostHealthCheckLogThrows(body) ==
  /\ Serving
  /\ Spend
  /\ totalRequests' = totalRequests + 1
  /\ req' = [n |-> req.n + 1, op |-> "health-check", arg |-> body]
  /\ IF Rejected(body)
     THEN /\ errorCount' = errorCount + 1
          /\ resp' = [op |-> "health-check", status |-> 400,
                      body |-> [error |-> "Missing required fields"]]
          /\ UNCHANGED <<servers, logFile, accepted>>
     ELSE /\ servers' = Assign(servers, body.serverId, ServerRecord(servers, body, now))
          /\ logFile' = Log(logFile, now, "info", "Health check")
          /\ accepted' = [accepted EXCEPT ![body.serverId] = @ + 1]
          /\ IF sinkUp
             THEN /\ resp' = [op |-> "health-check", status |-> 200,
                              body |-> [success |-> TRUE,
                                        message |-> "Health check recorded"]]
                  /\ UNCHANGED errorCount
             ELSE /\ resp' = [op |-> "middleware", status |-> 500,
                              body |-> [error |-> "Internal server error"]]
                  /\ errorCount' = errorCount + 1
  /\ UNCHANGED <<startTime, lastUpdate, history, sinkUp, now, phase, captured>>
  /\ ConsoleError(IF Rejected(body) THEN 0 ELSE 1)
  /\ UNCHANGED dvars

PostHealthCheck(body) ==
  /\ Serving
  /\ Spend
  /\ totalRequests' = totalRequests + 1
  /\ req' = [n |-> req.n + 1, op |-> "health-check", arg |-> body]
  /\ IF Rejected(body)
     THEN /\ errorCount' = errorCount + 1
          /\ resp' = [op |-> "health-check", status |-> 400,
                      body |-> [error |-> "Missing required fields"]]
          /\ UNCHANGED <<servers, logFile, accepted>>
     ELSE /\ servers' = Assign(servers, body.serverId, ServerRecord(servers, body, now))
          /\ logFile' = Log(logFile, now, "info", "Health check")
          /\ resp' = [op |-> "health-check", status |-> 200,
                      body |-> [success |-> TRUE, message |-> "Health check recorded"]]
          /\ accepted' = [accepted EXCEPT ![body.serverId] = @ + 1]
          /\ UNCHANGED errorCount
  /\ UNCHANGED <<startTime, lastUpdate, history, sinkUp, now, phase, captured>>
  /\ ConsoleError(IF Rejected(body) THEN 0 ELSE 1)
  /\ UNCHANGED dvars

(***************************************************************************)
(* A POST whose body is not valid JSON: express.json() fails before the    *)
(* route handler runs and the error-handling middleware answers.           *)
(***************************************************************************)
\* variant: no error-handling middleware is registered, so the default
\* handler of Express answers with the parser's 400 and nothing is counted
PostMalformedDefaultHandler ==
  /\ Serving
  /\ Spend
  /\ req' = [n |-> req.n + 1, op |-> "malformed", arg |-> <<>>]
  /\ resp' = [op |-> "middleware", status |-> 400, body |-> [error |-> "Bad Request"]]
  /\ UNCHANGED <<servers, totalRequests, errorCount, startTime, lastUpdate, history,
                 logFile, sinkUp, now, phase, captured, accepted>>
  /\ ConsoleError(0)
  /\ UNCHANGED dvars

PostMalformed ==
  /\ Serving
  /\ Spend
  /\ req' = [n |-> req.n + 1, op |-> "malformed", arg |-> <<>>]
  /\ errorCount' = errorCount + 1
  /\ logFile' = Log(logFile, now, "error", "Server error")
  /\ resp' = [op |-> "middleware", status |-> 500,
              body |-> [error |-> "Internal server error"]]
  /\ UNCHANGED <<servers, totalRequests, startTime, lastUpdate, history, sinkUp, now,
                 phase, captured, accepted>>
  /\ ConsoleError(1)
  /\ UNCHANGED dvars

(***************************************************************************)
(* GET /api/metrics.  collectMetrics() reads the clock first; the response *)
(* reads it again, d time units later.                                     *)
(***************************************************************************)
\* variant: uptime with its operands swapped
MetricsBodySwappedUptime(t, table, total, errs, h) ==
  [current |-> [timestamp |-> t,
                uptime |-> startTime - t,
                totalRequests |-> total,
                errorCount |-> errs,
                servers |-> table,
                serverCount |-> ServerCount(table),
                healthyCount |-> HealthyCount(table)],
   history |-> Slice(h, -MetricsWindow)]

\* variant: the response reports the counter as it was before this request
MetricsBodyStaleTotal(t, table, total, errs, h) ==
  [current |-> [timestamp |-> t,
                uptime |-> t - startTime,
                totalRequests |-> total - 1,
                errorCount |-> errs,
                servers |-> table,
                serverCount |-> ServerCount(table),
                healthyCount |-> HealthyCount(table)],
   history |-> Slice(h, -MetricsWindow)]

\* variant: the response is built before collectMetrics() has pushed its sample
MetricsBodyBeforeSample(t, table, total, errs, h) ==
  [current |-> [timestamp |-> t,
                uptime |-> t - startTime,
                totalRequests |-> total,
                errorCount |-> errs,
                servers |-> table,
                serverCount |-> ServerCount(table),
                healthyCount |-> HealthyCount(table)],
   history |-> Slice(SubSeq(h, 1, Len(h) - 1), -MetricsWindow)]

MetricsBody(t, table, total, errs, h) ==
  [current |-> [timestamp |-> t,
                uptime |-> t - startTime,
                totalRequests |-> total,
                errorCount |-> errs,
                servers |-> table,
                serverCount |-> ServerCount(table),
                healthyCount |-> HealthyCount(table)],
   history |-> Slice(h, -MetricsWindow)]

GetMetrics(d) ==
  /\ Serving
  /\ Spend
  /\ totalRequests' = totalRequests + 1
  /\ req' = [n |-> req.n + 1, op |-> "metrics", arg |-> d]
  /\ CollectMetrics(now, totalRequests', logFile)
  /\ now' = now + d
  /\ resp' = [op |-> "metrics", status |-> 200,
              body |-> MetricsBody(now', servers, totalRequests', errorCount, history')]
  /\ UNCHANGED <<servers, errorCount, startTime, sinkUp, phase, accepted>>
  /\ ConsoleError(1)
  /\ UNCHANGED dvars

(***************************************************************************)
(* GET /api/metrics/:serverId                                              *)
(***************************************************************************)
\* variant: the first 20 points are kept (slice(0, 20)) instead of the last
DerivedHistoryOldest(h, status, responseTime) ==
  SubSeq([i \in 1..Len(h) |-> [timestamp |-> h[i].timestamp,
                               status |-> status,
                               responseTime |-> responseTime]],
         1, IF Len(h) < MetricsWindow THEN Len(h) ELSE MetricsWindow)

\* history.map(h => ({timestamp, status: server.status, responseTime})).slice(-20)
DerivedHistory(h, status, responseTime) ==
  Slice([i \in 1..Len(h) |-> [timestamp |-> h[i].timestamp,
                              status |-> status,
                              responseTime |-> responseTime]],
        -MetricsWindow)

\* {serverId, ...server, history} for a service record, and for a value
\* inherited from Object.prototype, which spreads to no property at all
ServerBody(table, id, h) ==
  IF Lookup(table, id) = "own"
  THEN [serverId |-> id,
        name |-> table[id].name,
        status |-> table[id].status,
        responseTime |-> table[id].responseTime,
        error |-> table[id].error,
        lastChecked |-> table[id].lastChecked,
        checksCount |-> table[id].checksCount,
        history |-> DerivedHistory(h, table[id].status, table[id].responseTime)]
  ELSE [serverId |-> id,
        history |-> DerivedHistory(h, Undefined, Undefined)]

GetServerMetrics(id) ==
  /\ Serving
  /\ Spend
  /\ totalRequests' = totalRequests + 1
  /\ req' = [n |-> req.n + 1, op |-> "server-metrics", arg |-> id]
  /\ IF Lookup(servers, id) = "undefined"
     THEN /\ errorCount' = errorCount + 1
          /\ resp' = [op |-> "server-metrics", status |-> 404,
                      body |-> [error |-> "Server not found"]]
     ELSE /\ resp' = [op |-> "server-metrics", status |-> 200,
                      body |-> ServerBody(servers, id, history)]
          /\ UNCHANGED errorCount
  /\ UNCHANGED <<servers, startTime, lastUpdate, history, logFile, sinkUp, now, phase,
                 captured, accepted>>
  /\ ConsoleError(0)
  /\ UNCHANGED dvars

(***************************************************************************)
(* GET /api/logs?limit=&level=                                             *)
(***************************************************************************)
\* parseInt(req.query.limit) for the query strings of the model; <<>> is NaN
ParseInt(str) ==
  CASE str = "1" -> <<1>>
    [] str = "0" -> <<0>>
    [] str = "-1" -> <<-1>>
    [] OTHER -> <<>>

\* parseInt(req.query.limit) || 100
Limit(str) ==
  IF ParseInt(str) = <<>> \/ ParseInt(str) = <<0>> THEN DefaultLogLimit
  ELSE ParseInt(str)[1]

LogQueries ==
  { <<Undefined, Undefined>>, <<"1", "info">>, <<"-1", Undefined>> }

LogsBody(file, limit, level) ==
  LET IsLevel(e) == e.level = level
      filteredLogs == IF Falsy(level) THEN file ELSE SelectSeq(file, IsLevel)
  IN [logs |-> Slice(filteredLogs, -Limit(limit)),
      total |-> Len(filteredLogs),
      filtered |-> ~Falsy(level)]

\* fs.readFileSync throws when the file cannot be read or was never created
ReadFails == ~sinkUp \/ logFile = <<>>

GetLogs(limit, level) ==
  /\ Serving
  /\ Spend
  /\ totalRequests' = totalRequests + 1
  /\ req' = [n |-> req.n + 1, op |-> "logs", arg |-> <<limit, level>>]
  /\ IF ReadFails
     THEN /\ errorCount' = errorCount + 1
          /\ logFile' = Log(logFile, now, "error", "Failed to read logs")
          /\ resp' = [op |-> "logs", status |-> 500,
                      body |-> [error |-> "Failed to read logs"]]
     ELSE /\ resp' = [op |-> "logs", status |-> 200,
                      body |-> LogsBody(logFile, limit, level)]
          /\ UNCHANGED <<errorCount, logFile>>
  /\ UNCHANGED <<servers, startTime, lastUpdate, history, sinkUp, now, phase, captured,
                 accepted>>
  /\ ConsoleError(IF ReadFails THEN 1 ELSE 0)
  /\ UNCHANGED dvars

(***************************************************************************)
(* GET /api/health                                                         *)
(***************************************************************************)
GetHealth ==
  /\ Serving
  /\ Spend
  /\ totalRequests' = totalRequests + 1
  /\ req' = [n |-> req.n + 1, op |-> "health", arg |-> <<>>]
  /\ resp' = [op |-> "health", status |-> 200,
              body |-> [status |-> "healthy", timestamp |-> now,
                        uptime |-> now - startTime, version |-> "1.0.0"]]
  /\ UNCHANGED <<servers, errorCount, startTime, lastUpdate, history, logFile, sinkUp,
                 now, phase, captured, accepted>>
  /\ ConsoleError(0)
  /\ UNCHANGED dvars

(***************************************************************************)
(* process.on('SIGTERM'): a log line and server.close(); the close         *)
(* callback logs and exits once the open connections have ended.  The      *)
(* interval timer is not cleared.                                          *)
(***************************************************************************)
Sigterm ==
  /\ Serving
  /\ Spend
  /\ phase' = "closing"
  /\ logFile' = Log(logFile, now, "info", "Received SIGTERM")
  /\ UNCHANGED <<servers, totalRequests, errorCount, startTime, lastUpdate, history,
                 sinkUp, now, req, resp, captured, accepted>>
  /\ ConsoleError(1)
  /\ UNCHANGED dvars

ServerClosed ==
  /\ phase = "closing"
  /\ phase' = "exited"
  /\ logFile' = Log(logFile, now, "info", "Server closed")
  /\ UNCHANGED <<servers, totalRequests, errorCount, startTime, lastUpdate, history,
                 sinkUp, now, req, resp, captured, accepted, budget>>
  /\ ConsoleError(1)
  /\ UNCHANGED dvars

(***************************************************************************)
(* The environment: the log file becomes unavailable, or available again.  *)
(***************************************************************************)
SinkFlip ==
  /\ phase # "exited"
  /\ budget.quiet = 0
  /\ Spend
  /\ sinkUp' = ~sinkUp
  /\ UNCHANGED <<servers, totalRequests, errorCount, startTime, lastUpdate, history,
                 logFile, now, phase, req, resp, captured, accepted>>
  /\ ConsoleError(0)
  /\ UNCHANGED dvars

Next ==
  \/ Listen
  \/ SamplerTick
  \/ \E body \in Bodies : PostHealthCheck(body)
  \/ PostMalformed
  \/ \E d \in {0, 1} : GetMetrics(d)
  \/ \E id \in Ids : GetServerMetrics(id)
  \/ \E q \in LogQueries : GetLogs(q[1], q[2])
  \/ GetHealth
  \/ Sigterm
  \/ ServerClosed
  \/ SinkFlip

Spec == Init /\ [][Next]_vars

(***************************************************************************)
(* Vocabulary of the properties.                                           *)
(***************************************************************************)
Min(a, b) == IF a < b THEN a ELSE b

\* this step handled a request for `op`
Handled(op) == req'.n = req.n + 1 /\ req'.op = op

MissingOrEmpty(v) == v = Undefined \/ v = ""

\* the stored checksCount of a service id, 0 while it has no record
ChecksCount(id) == IF id \in DOMAIN servers THEN servers[id].checksCount ELSE 0

\* the response is a service record
IsRecord(r) == r.op = "server-metrics" /\ r.status = 200 /\ "checksCount" \in DOMAIN r.body

(***************************************************************************)
(* C1: for every service id, the stored checksCount equals the number of   *)
(* accepted reports for that id, whatever reports for other ids, reads and *)
(* sampler ticks were interleaved.                                         *)
(***************************************************************************)
C1_ChecksCountIsN == \A id \in Ids : ChecksCount(id) = accepted[id]

C1_Witness ==
  /\ accepted["github"] = 2
  /\ accepted["constructor"] = 1
  /\ Len(captured) >= 2
  /\ ChecksCount("github") = 2

(***************************************************************************)
(* C2 as stated: a report whose body carries serviceId, serviceName,       *)
(* status and responseTime, all non-empty, is answered with 200.           *)
(***************************************************************************)
C2_ServiceIdAccepted ==
  [][ ( /\ Handled("health-check")
        /\ ~MissingOrEmpty(req'.arg.serviceId)
        /\ ~MissingOrEmpty(req'.arg.serviceName)
        /\ ~MissingOrEmpty(req'.arg.status)
        /\ ~MissingOrEmpty(req'.arg.responseTime) )
      => resp'.status = 200 ]_vars

(***************************************************************************)
(* C2 amended: a report whose body carries serverId, serverName, status    *)
(* and responseTime, all non-empty, is answered with 200; and a GET        *)
(* /api/metrics/<serverId> that follows an accepted report for that id     *)
(* returns its record with the submitted status and responseTime, and with *)
(* checksCount 1 when that report was the first one for the id.            *)
(***************************************************************************)
C2_ServerIdAccepted ==
  [][ /\ ( /\ Handled("health-check")
           /\ ~MissingOrEmpty(req'.arg.serverId)
           /\ ~MissingOrEmpty(req'.arg.serverName)
           /\ ~MissingOrEmpty(req'.arg.status)
           /\ ~MissingOrEmpty(req'.arg.responseTime) )
         => resp'.status = 200
      /\ ( /\ req.op = "health-check"
           /\ resp.status = 200
           /\ Handled("server-metrics")
           /\ req'.arg = req.arg.serverId )
         => /\ IsRecord(resp')
            /\ resp'.body.serverId = req.arg.serverId
            /\ resp'.body.status = req.arg.status
            /\ resp'.body.responseTime = req.arg.responseTime
            /\ (accepted[req.arg.serverId] = 1 => resp'.body.checksCount = 1) ]_vars

C2_Witness ==
  /\ req.op = "server-metrics"
  /\ req.arg = "github"
  /\ IsRecord(resp)
  /\ resp.body.checksCount = 1
  /\ resp.body.status = "healthy"
  /\ resp.body.responseTime = "42"
  /\ totalRequests = 2

(***************************************************************************)
(* C3: a report whose serverId, serverName or status is missing or empty   *)
(* is answered with 400, adds exactly one to the error counter and leaves  *)
(* the service table as it was, so no record is created for its id.        *)
(***************************************************************************)
InvalidReport(body) ==
  MissingOrEmpty(body.serverId) \/ MissingOrEmpty(body.serverName)
    \/ MissingOrEmpty(body.status)

C3_InvalidReportRejected ==
  [][ (Handled("health-check") /\ InvalidReport(req'.arg))
      => /\ resp'.status = 400
         /\ errorCount' = errorCount + 1
         /\ servers' = servers ]_vars

C3_Witness ==
  /\ req.op = "health-check"
  /\ req.arg.status = Undefined
  /\ req.arg.serverId = "github"
  /\ resp.status = 400
  /\ errorCount = 1
  /\ "github" \notin DOMAIN servers

(***************************************************************************)
(* C4 as stated: a rejected report leaves the service table, the sample    *)
(* history and the total-request counter as they were.                     *)
(***************************************************************************)
C4_RejectedChangesOnlyErrorCount ==
  [][ (Handled("health-check") /\ InvalidReport(req'.arg))
      => /\ servers' = servers
         /\ history' = history
         /\ totalRequests' = totalRequests ]_vars

(***************************************************************************)
(* C4 amended: a rejected report adds one to the error counter and one to  *)
(* the total-request counter and changes nothing else: the service table,  *)
(* the sample history and the log file are as they were.                   *)
(***************************************************************************)
C4_RejectedChangesOnlyCounters ==
  [][ (Handled("health-check") /\ InvalidReport(req'.arg))
      => /\ totalRequests' = totalRequests + 1
         /\ errorCount' = errorCount + 1
         /\ UNCHANGED <<servers, history, logFile, startTime, lastUpdate, captured,
                        accepted, phase, now>> ]_vars

C4_Witness ==
  /\ req.op = "health-check"
  /\ InvalidReport(req.arg)
  /\ resp.status = 400
  /\ servers # <<>>
  /\ Len(history) >= 2
  /\ errorCount = 1
  /\ totalRequests >= 2

(***************************************************************************)
(* C5 as stated: GET /api/metrics/<id> answers 404 {error: "Server not     *)
(* found"} for an id no accepted report has named, answers with the        *)
(* service record for an id an accepted report has named, and never        *)
(* changes the service table.                                              *)
(***************************************************************************)
C5_UnknownIdNotFound ==
  [][ Handled("server-metrics")
      => /\ IF accepted[req'.arg] = 0
            THEN resp'.status = 404 /\ resp'.body = [error |-> "Server not found"]
            ELSE IsRecord(resp') /\ resp'.body.serverId = req'.arg
         /\ servers' = servers ]_vars

(***************************************************************************)
(* C6: the retained history never holds more than 100 samples, and a       *)
(* history array returned by GET /api/metrics or GET /api/metrics/<id>     *)
(* holds at most min(20, retained length) samples.                         *)
(***************************************************************************)
C6_HistoryBounded ==
  /\ Len(history) <= 100
  /\ resp.op = "metrics" => Len(resp.body.history) <= Min(20, Len(history))
  /\ (resp.op = "server-metrics" /\ resp.status = 200)
       => Len(resp.body.history) <= Min(20, Len(history))

C6_Witness ==
  /\ Len(captured) > 100
  /\ Len(history) = 100
  /\ resp.op = "metrics"
  /\ Len(resp.body.history) = 20

(***************************************************************************)
(* C7: after K calls of collectMetrics the history holds the min(K, 100)   *)
(* most recently captured samples, in capture order.                       *)
(***************************************************************************)
C7_OldestEvictedFirst ==
  LET K == Len(captured)
  IN /\ Len(history) = Min(K, 100)
     /\ \A i \in 1..Len(history) : history[i] = captured[K - Len(history) + i]

C7_Witness ==
  /\ Len(captured) = 102
  /\ history[1] = captured[3]
  /\ history[1] # captured[1]
  /\ history[100] = captured[102]

(***************************************************************************)
(* C8: in a GET /api/metrics response healthyCount <= serverCount, and in  *)
(* every retained sample healthyServers <= servers.                        *)
(***************************************************************************)
C8_HealthyAtMostTracked ==
  /\ resp.op = "metrics"
       => resp.body.current.healthyCount <= resp.body.current.serverCount
  /\ \A i \in 1..Len(history) : history[i].healthyServers <= history[i].servers

C8_Witness ==
  /\ resp.op = "metrics"
  /\ resp.body.current.healthyCount = 1
  /\ resp.body.current.serverCount = 2
  /\ history[Len(history)].healthyServers = 1
  /\ history[Len(history)].servers = 2

(***************************************************************************)
(* C9: of two GET /api/metrics calls with no other request between them,   *)
(* the second returns the same serverCount as the first, and totalRequests *)
(* and uptime not smaller than the first.                                  *)
(***************************************************************************)
C9_ConsecutiveSnapshots ==
  [][ (req.op = "metrics" /\ Handled("metrics"))
      => /\ resp'.body.current.serverCount = resp.body.current.serverCount
         /\ resp'.body.current.totalRequests >= resp.body.current.totalRequests
         /\ resp'.body.current.uptime >= resp.body.current.uptime ]_vars

C9_Witness ==
  /\ req.op = "metrics"
  /\ req.n = 2
  /\ totalRequests = 2
  /\ Len(captured) = 3
  /\ now = 1
  /\ resp.body.current.uptime = 1

(***************************************************************************)
(* C10: GET /api/metrics appends exactly one new sample to the history,    *)
(* evicting the oldest one when the history already holds 100; GET         *)
(* /api/metrics/<id>, GET /api/logs, GET /api/health and POST              *)
(* /api/health-check leave the history as it was.                          *)
(***************************************************************************)
C10_OnlyMetricsReadSamples ==
  [][ /\ Handled("metrics")
         => /\ Len(history') >= 1
            /\ history'[Len(history')].totalRequests = totalRequests'
            /\ history' = (IF Len(history) = 100 THEN Tail(history) ELSE history)
                            \o <<history'[Len(history')]>>
      /\ (\E op \in {"server-metrics", "logs", "health", "health-check"} : Handled(op))
         => history' = history ]_vars

C10_Witness ==
  /\ req.op = "metrics"
  /\ req.n = 1
  /\ Len(captured) = 101
  /\ Len(history) = 100
  /\ captured[100].totalRequests = 0
  /\ history[100].totalRequests = 1

(***************************************************************************)
(* C11: every read request (GET /api/metrics, GET /api/metrics/<id>, GET   *)
(* /api/logs, GET /api/health) adds exactly one to totalRequests, and does *)
(* so before the read: the totalRequests a metrics read reports, and the   *)
(* sample it takes, already count that read.                               *)
(***************************************************************************)
Reads == {"metrics", "server-metrics", "logs", "health"}

C11_ReadsCountedFirst ==
  [][ /\ (\E op \in Reads : Handled(op)) => totalRequests' = totalRequests + 1
      /\ Handled("metrics")
         => /\ resp'.body.current.totalRequests = totalRequests + 1
            /\ history'[Len(history')].totalRequests = totalRequests + 1 ]_vars

C11_Witness ==
  /\ req.op = "metrics"
  /\ req.n = 3
  /\ totalRequests = 3
  /\ resp.body.current.totalRequests = 3
  /\ history[Len(history)].totalRequests = 3
  /\ errorCount = 1

(***************************************************************************)
(* C12: a fault raised while a request is handled (the log file cannot be  *)
(* read, the body is not JSON) is caught: the error counter grows by       *)
(* exactly one, the answer is a 500 with a fixed message, the service      *)
(* table and the history are as they were, and the process goes on         *)
(* serving.                                                                *)
(***************************************************************************)
C12_FaultsCaught ==
  [][ ((Handled("logs") /\ ReadFails) \/ Handled("malformed"))
      => /\ resp'.status = 500
         /\ resp'.body \in {[error |-> "Failed to read logs"],
                            [error |-> "Internal server error"]}
         /\ errorCount' = errorCount + 1
         /\ servers' = servers
         /\ history' = history
         /\ phase' = phase
         /\ phase' \in {"listening", "closing"} ]_vars

C12_Witness ==
  /\ req.op = "logs"
  /\ resp.status = 500
  /\ resp.body.error = "Failed to read logs"
  /\ ~sinkUp
  /\ errorCount = 2
  /\ servers # <<>>
  /\ phase = "listening"

(***************************************************************************)
(* C13 as stated: GET /api/logs answers, for any limit supplied (100 when  *)
(* none is) and an optional level, with at most `limit` entries: the last  *)
(* `limit` entries of the log restricted to the level, oldest first;       *)
(* `total` is the number of entries of that level, and `filtered` tells    *)
(* whether a level was given.                                              *)
(***************************************************************************)
\* the last n elements of s, none when n is zero or negative
LastN(s, n) ==
  IF n <= 0 THEN <<>>
  ELSE SubSeq(s, (IF Len(s) - n < 0 THEN 0 ELSE Len(s) - n) + 1, Len(s))

\* the limit a query string asks for
SuppliedLimit(str) == IF ParseInt(str) = <<>> THEN 100 ELSE ParseInt(str)[1]

C13_LogsLimited ==
  [][ (Handled("logs") /\ resp'.status = 200)
      => LET limit == SuppliedLimit(req'.arg[1])
             level == req'.arg[2]
             HasLevel(e) == e.level = level
             wanted == IF level = Undefined THEN logFile
                       ELSE SelectSeq(logFile, HasLevel)
         IN /\ Len(resp'.body.logs) <= (IF limit < 0 THEN 0 ELSE limit)
            /\ resp'.body.logs = LastN(wanted, limit)
            /\ resp'.body.total = Len(wanted)
            /\ resp'.body.filtered = (level # Undefined) ]_vars

(***************************************************************************)
(* The service with no client at all: the listen callback and the timer    *)
(* are the only things that run.  Node calls the listen callback once the  *)
(* socket is bound and fires the interval timer for as long as the process *)
(* lives, hence the weak fairness of both.                                 *)
(***************************************************************************)
NextSampler ==
  \/ Listen
  \/ SamplerTick

SpecSampler ==
  Init /\ [][NextSampler]_vars /\ WF_vars(Listen) /\ WF_vars(SamplerTick)

(***************************************************************************)
(* C14: with no read traffic, the sampler alone makes the history accrue:  *)
(* the history eventually becomes non-empty, every tick on a history of    *)
(* fewer than 100 samples adds one, a run of enough ticks brings it to     *)
(* 100, and every tick on a history of 100 drops the oldest sample and     *)
(* appends the new one.                                                    *)
(***************************************************************************)
C14_SamplerAloneAccrues ==
  /\ <>(history # <<>>)
  /\ (budget.quiet = HistoryCapacity - 2) ~> (Len(history) = HistoryCapacity)
  /\ [][ (phase = "listening" /\ now' = now + SampleInterval)
         => /\ totalRequests' = 0
            /\ history' # <<>>
            /\ history'[Len(history')].timestamp = now'
            /\ IF Len(history) < HistoryCapacity
               THEN history' = Append(history, history'[Len(history')])
               ELSE /\ Len(history') = HistoryCapacity
                    /\ \A i \in 1..(HistoryCapacity - 1) : history'[i] = history[i + 1]
       ]_vars

C14_Witness ==
  /\ Len(history) = HistoryCapacity
  /\ Len(captured) = HistoryCapacity + 2
  /\ history[1] = captured[3]
  /\ history[HistoryCapacity].timestamp = now
  /\ totalRequests = 0
  /\ req.n = 0

(***************************************************************************)
(* C15: a valid health report handled while the log file cannot be written *)
(* still updates the record (checksCount one more than before, the fields  *)
(* of the report stored, lastChecked now), answers 200, leaves errorCount  *)
(* alone, and writes nothing to the log file.                              *)
(***************************************************************************)
C15_LogFailureSwallowed ==
  [][ (Handled("health-check") /\ ~InvalidReport(req'.arg) /\ ~sinkUp)
      => LET body == req'.arg
             id == body.serverId
         IN /\ id \in DOMAIN servers'
            /\ servers'[id].checksCount = ChecksCount(id) + 1
            /\ servers'[id].name = body.serverName
            /\ servers'[id].status = body.status
            /\ servers'[id].responseTime = body.responseTime
            /\ servers'[id].error = body.error
            /\ servers'[id].lastChecked = now
            /\ resp'.status = 200
            /\ resp'.body = [success |-> TRUE, message |-> "Health check recorded"]
            /\ errorCount' = errorCount
            /\ logFile' = logFile ]_vars

C15_Witness ==
  /\ ~sinkUp
  /\ req.op = "health-check"
  /\ req.n = 2
  /\ ~InvalidReport(req.arg)
  /\ resp.status = 200
  /\ "github" \in DOMAIN servers
  /\ servers["github"].checksCount = 2
  /\ servers["github"].status = "degraded"
  /\ errorCount = 0
  /\ Len(logFile) = 3

(***************************************************************************)
(* Shutdown: server.close() calls back once the connections that were open *)
(* at SIGTERM have ended, hence the weak fairness of ServerClosed.         *)
(***************************************************************************)
SpecShutdown == Spec /\ WF_vars(ServerClosed)

(***************************************************************************)
(* C16 as stated: once SIGTERM has been received no sampler tick appends a *)
(* sample to the history before the process exits, and the process         *)
(* eventually exits.                                                       *)
(***************************************************************************)
C16_SamplerStoppedAtSigterm ==
  /\ [][ (phase \in {"closing", "exited"} /\ now' = now + SampleInterval)
         => (history' = history /\ captured' = captured) ]_vars
  /\ (phase = "closing") ~> (phase = "exited")

(***************************************************************************)
(* C17 as stated: in every reachable state the status of every service     *)
(* record is one of healthy, unhealthy, unknown, error.                    *)
(***************************************************************************)
EnumeratedStatuses == {"healthy", "unhealthy", "unknown", "error"}

C17_StatusEnumerated ==
  \A id \in DOMAIN servers : servers[id].status \in EnumeratedStatuses

(***************************************************************************)
(* C17 amended: in every reachable state the status of every service       *)
(* record is present and non-empty; it is the status string of the latest  *)
(* accepted report for that id, whatever that string is, and no other      *)
(* operation changes it.                                                   *)
(***************************************************************************)
C17_StatusAsReported ==
  /\ [](\A id \in DOMAIN servers : ~MissingOrEmpty(servers[id].status))
  /\ [][ \A id \in DOMAIN servers' :
           IF Handled("health-check") /\ resp'.status = 200 /\ req'.arg.serverId = id
           THEN servers'[id].status = req'.arg.status
           ELSE id \in DOMAIN servers /\ servers'[id].status = servers[id].status ]_vars

C17_Witness ==
  /\ "github" \in DOMAIN servers
  /\ servers["github"].status = "degraded"
  /\ servers["github"].checksCount = 2
  /\ "constructor" \in DOMAIN servers
  /\ servers["constructor"].status = "healthy"
  /\ req.op = "server-metrics"

(***************************************************************************)
(* C18: in every step, every service id present in the service table stays *)
(* in it, and its checksCount and its lastChecked do not decrease (the     *)
(* clock never runs backwards); an accepted report raises checksCount by   *)
(* exactly one.                                                            *)
(***************************************************************************)
C18_RecordsMonotonic ==
  [][ /\ now' >= now
      /\ \A id \in DOMAIN servers :
           /\ id \in DOMAIN servers'
           /\ servers'[id].checksCount >= servers[id].checksCount
           /\ servers'[id].lastChecked >= servers[id].lastChecked
      /\ (Handled("health-check") /\ resp'.status = 200)
         => servers'[req'.arg.serverId].checksCount
              = ChecksCount(req'.arg.serverId) + 1 ]_vars

C18_Witness ==
  /\ "github" \in DOMAIN servers
  /\ servers["github"].checksCount = 2
  /\ servers["github"].lastChecked = SampleInterval
  /\ "constructor" \in DOMAIN servers
  /\ servers["constructor"].lastChecked = 0
  /\ req.op = "health-check"
  /\ req.arg.serverId = "github"

(***************************************************************************)
(* C19: no step lowers totalRequests or errorCount, and in the retained    *)
(* history, taken in order, no sample has a smaller totalRequests or a     *)
(* smaller errorCount than the sample before it; the newest sample never   *)
(* exceeds the counters themselves.                                        *)
(***************************************************************************)
C19_CountersNeverDecrease ==
  /\ [][totalRequests' >= totalRequests /\ errorCount' >= errorCount]_vars
  /\ [](\A i \in 1..(Len(history) - 1) :
          /\ history[i].totalRequests <= history[i + 1].totalRequests
          /\ history[i].errorCount <= history[i + 1].errorCount)
  /\ [](history # <<>>
          => /\ history[Len(history)].totalRequests <= totalRequests
             /\ history[Len(history)].errorCount <= errorCount)

C19_Witness ==
  /\ Len(history) = 3
  /\ history[1].totalRequests = 0
  /\ history[1].errorCount = 0
  /\ history[2].totalRequests = 1
  /\ history[2].errorCount = 1
  /\ history[3].totalRequests = 3
  /\ history[3].errorCount = 2

(***************************************************************************)
(* C20 as stated: the first reference to an unseen key, be it an accepted  *)
(* report or a GET /api/metrics/<id> naming it, creates a record for the   *)
(* key with status unknown.                                                *)
(***************************************************************************)
C20_CreatedUnknownOnFirstReference ==
  [][ LET id == IF Handled("server-metrics") THEN req'.arg ELSE req'.arg.serverId
      IN ( /\ Handled("server-metrics")
              \/ (Handled("health-check") /\ ~InvalidReport(req'.arg))
           /\ id \notin DOMAIN servers )
         => (id \in DOMAIN servers' /\ servers'[id].status = "unknown") ]_vars

(***************************************************************************)
(* C20 amended: a record is created only by the first accepted report for  *)
(* an unseen key, with the status submitted in that report and checksCount *)
(* 1; a GET /api/metrics/<id> leaves the service table as it was, so a     *)
(* query naming an unseen key creates no record.                           *)
(***************************************************************************)
C20_CreatedByFirstReport ==
  [][ /\ Handled("server-metrics") => servers' = servers
      /\ ( /\ Handled("health-check")
           /\ ~InvalidReport(req'.arg)
           /\ req'.arg.serverId \notin DOMAIN servers )
         => /\ DOMAIN servers' = DOMAIN servers \cup {req'.arg.serverId}
            /\ servers'[req'.arg.serverId].status = req'.arg.status
            /\ servers'[req'.arg.serverId].checksCount = 1
      /\ DOMAIN servers' # DOMAIN servers
         => (Handled("health-check") /\ resp'.status = 200) ]_vars

C20_Witness ==
  /\ req.op = "server-metrics"
  /\ req.arg = "github"
  /\ resp.status = 404
  /\ DOMAIN servers = {"constructor"}
  /\ servers["constructor"].status = "degraded"
  /\ servers["constructor"].checksCount = 1
  /\ errorCount = 1

(***************************************************************************)
(* C21: an accepted report leaves in the record exactly the name, status,  *)
(* responseTime and error it submitted, an omitted responseTime or error   *)
(* being stored as absent whatever an earlier report had stored, sets      *)
(* lastChecked to the time of the call, and carries over only checksCount, *)
(* plus one; the records of the other ids are untouched.                   *)
(***************************************************************************)
C21_ReportOverwritesRecord ==
  [][ (Handled("health-check") /\ resp'.status = 200)
      => LET body == req'.arg
             id == body.serverId
         IN /\ servers'[id] = [name |-> body.serverName,
                               status |-> body.status,
                               responseTime |-> body.responseTime,
                               error |-> body.error,
                               lastChecked |-> now,
                               checksCount |-> ChecksCount(id) + 1]
            /\ \A other \in DOMAIN servers' \ {id} :
                 other \in DOMAIN servers /\ servers'[other] = servers[other] ]_vars

C21_Witness ==
  /\ req.op = "health-check"
  /\ req.arg.serverId = "github"
  /\ req.arg.responseTime = Undefined
  /\ req.arg.error = "timeout"
  /\ accepted["github"] = 3
  /\ servers["github"].checksCount = 3
  /\ servers["github"].responseTime = Undefined
  /\ servers["github"].error = "timeout"
  /\ servers["github"].lastChecked = SampleInterval

(***************************************************************************)
(* C22: every capture is taken in one state.  Whenever a sample is built,  *)
(* by the timer, the listen callback or GET /api/metrics, among any        *)
(* interleaving of reports, ticks and reads, its servers and               *)
(* healthyServers are the size of the service table of that state and its  *)
(* number of records with status exactly healthy; and in a GET             *)
(* /api/metrics response serverCount and healthyCount are those counts on  *)
(* the servers table of the same response, which is the table of the       *)
(* state.                                                                  *)
(***************************************************************************)
C22_CaptureInOneState ==
  [][ /\ captured' # captured
         => LET sample == captured'[Len(captured')]
            IN /\ Len(captured') = Len(captured) + 1
               /\ servers' = servers
               /\ sample.servers = Cardinality(DOMAIN servers)
               /\ sample.healthyServers
                    = Cardinality({id \in DOMAIN servers : servers[id].status = "healthy"})
               /\ history' # <<>>
               /\ history'[Len(history')] = sample
      /\ Handled("metrics")
         => LET current == resp'.body.current
            IN /\ captured' # captured
               /\ current.servers = servers
               /\ current.serverCount = Cardinality(DOMAIN current.servers)
               /\ current.healthyCount
                    = Cardinality({id \in DOMAIN current.servers :
                                     current.servers[id].status = "healthy"}) ]_vars

C22_Witness ==
  /\ req.op = "metrics"
  /\ req.n = 4
  /\ DOMAIN resp.body.current.servers = {"github", "constructor"}
  /\ resp.body.current.servers["github"].status = "healthy"
  /\ resp.body.current.servers["github"].checksCount = 2
  /\ resp.body.current.servers["constructor"].status = "degraded"
  /\ resp.body.current.serverCount = 2
  /\ resp.body.current.healthyCount = 1
  /\ captured[Len(captured)].servers = 2
  /\ captured[Len(captured)].healthyServers = 1
  /\ captured[Len(captured) - 1].servers = 0

(***************************************************************************)
(* C23: the exception a sampler tick can raise, the failed write of its    *)
(* log line, is swallowed and reported on the console: the tick still      *)
(* appends its sample, the error counter and the log file stay as they     *)
(* were, the process stays in its phase, and while the process lives the   *)
(* timer stays armed, so later ticks run and append samples too.           *)
(***************************************************************************)
C23_TickFailureSwallowed ==
  /\ [][ (now' = now + SampleInterval /\ ~sinkUp)
         => /\ phase' = phase
            /\ phase' \in {"listening", "closing"}
            /\ captured' = Append(captured, history'[Len(history')])
            /\ history'[Len(history')].timestamp = now'
            /\ Len(history') = Min(Len(history) + 1, HistoryCapacity)
            /\ consoleErrors' = consoleErrors + 1
            /\ logFile' = logFile
            /\ errorCount' = errorCount ]_vars
  /\ []((phase \in {"listening", "closing"} /\ budget.steps > 0) => ENABLED SamplerTick)

C23_Witness ==
  /\ ~sinkUp
  /\ consoleErrors = 2
  /\ now = 2 * SampleInterval
  /\ Len(captured) = 3
  /\ Len(history) = 3
  /\ history[3].timestamp = now
  /\ Len(logFile) = 3
  /\ phase = "listening"
  /\ req.n = 0

(***************************************************************************)
(* C24: for an id that has a record, GET /api/metrics/<id> answers 200     *)
(* with a derived history of min(20, Len(history)) points, one per sample  *)
(* of the most recent samples in capture order, each point carrying the    *)
(* timestamp of its sample and the current status and responseTime of the  *)
(* record; the call leaves the retained history as it was.                 *)
(***************************************************************************)
C24_DerivedHistoryWindow ==
  [][ (Handled("server-metrics") /\ req'.arg \in DOMAIN servers)
      => LET id == req'.arg
             derived == resp'.body.history
             K == Len(history)
             n == Min(MetricsWindow, K)
         IN /\ resp'.status = 200
            /\ resp'.body.serverId = id
            /\ Len(derived) = n
            /\ \A i \in 1..n :
                 derived[i] = [timestamp |-> history[K - n + i].timestamp,
                               status |-> servers[id].status,
                               responseTime |-> servers[id].responseTime]
            /\ history' = history
            /\ captured' = captured
            /\ servers' = servers ]_vars

C24_Witness ==
  /\ req.op = "server-metrics"
  /\ req.arg = "github"
  /\ resp.status = 200
  /\ Len(history) = HistoryCapacity
  /\ Len(resp.body.history) = MetricsWindow
  /\ resp.body.history[1].timestamp = history[HistoryCapacity - MetricsWindow + 1].timestamp
  /\ resp.body.history[1].timestamp # history[1].timestamp
  /\ resp.body.history[MetricsWindow].timestamp = history[HistoryCapacity].timestamp
  /\ resp.body.history[1].status = "degraded"
  /\ resp.body.history[1].responseTime = "42"
  /\ servers["github"].status = "degraded"

(***************************************************************************)
(* C25 as stated: in every reachable state the error counter is at most    *)
(* the total-request counter.                                              *)
(***************************************************************************)
C25_ErrorsAtMostRequests == errorCount <= totalRequests

(***************************************************************************)
(* C26: in every GET /api/metrics response the history is non-empty and    *)
(* its last sample agrees with `current` of the same response: same        *)
(* totalRequests, same errorCount, servers equal to serverCount and        *)
(* healthyServers equal to healthyCount.                                   *)
(***************************************************************************)
C26_LastSampleIsCurrent ==
  [][ Handled("metrics")
      => LET current == resp'.body.current
             h == resp'.body.history
         IN /\ h # <<>>
            /\ h[Len(h)].totalRequests = current.totalRequests
            /\ h[Len(h)].errorCount = current.errorCount
            /\ h[Len(h)].servers = current.serverCount
            /\ h[Len(h)].healthyServers = current.healthyCount
            /\ h[Len(h)] = history'[Len(history')] ]_vars

C26_Witness ==
  /\ req.op = "metrics"
  /\ Len(resp.body.history) = 2
  /\ resp.body.history[2].totalRequests = 3
  /\ resp.body.current.totalRequests = 3
  /\ resp.body.history[2].errorCount = 1
  /\ resp.body.current.errorCount = 1
  /\ resp.body.history[2].servers = 1
  /\ resp.body.current.serverCount = 1
  /\ resp.body.history[2].healthyServers = 1
  /\ resp.body.current.healthyCount = 1
  /\ resp.body.history[1].servers = 0

(***************************************************************************)
(* The dashboard service.  Its handlers are async functions: each runs to  *)
(* its next await, and the handlers in flight interleave at the awaits of  *)
(* the health probes.  What follows the last await of a handler, up to its *)
(* response, runs in the same turn as the resolution of that probe.        *)
(***************************************************************************)
\* how a probe, axios.get(url + '/health', {timeout: 5000}), can end: with
\* status 200, with another 2xx status, or rejected (another status, a
\* timeout, no connection, no valid url)
ProbeOutcomes == {"200", "204", "rejected"}

\* variant: no try/catch, a rejected probe throws out of checkServerHealth
CheckServerHealthNoCatch(outcome) ==
  IF outcome = "rejected" THEN "throws"
  ELSE IF outcome = "200" THEN "healthy" ELSE "unhealthy"

\* checkServerHealth(server), once its probe has ended
CheckServerHealth(outcome) ==
  IF outcome = "rejected" THEN "unhealthy"
  ELSE IF outcome = "200" THEN "healthy" ELSE "unhealthy"

\* the body of the loop of updateServerStatuses: the status it stores
LoopStatus(outcome) ==
  IF CheckServerHealth(outcome) = "throws" THEN "error" ELSE CheckServerHealth(outcome)

\* the body of the /api/stats response
StatsBody(table) ==
  LET totalServers == Cardinality(DOMAIN table)
      healthyServers == Cardinality({k \in DOMAIN table : table[k].status = "healthy"})
  IN [totalServers |-> totalServers,
      healthyServers |-> healthyServers,
      unhealthyServers |-> totalServers - healthyServers]

\* the ids asked for: a configured one, a member of Object.prototype, neither
DashIds == {"github", "constructor", "nope"}

\* a request arrives: no more than MaxDashRequests in all
Arrives(h) ==
  /\ handlers[h] = Idle
  /\ dashServed < MaxDashRequests
  /\ dashServed' = dashServed + 1

\* GET /api/servers: updateServerStatuses() starts the probe of the first entry
GetServers(h) ==
  /\ Arrives(h)
  /\ handlers' = [handlers EXCEPT ![h] = [kind |-> "servers", at |-> 1, id |-> Undefined]]
  /\ UNCHANGED <<mcpServers, objectStatus, dashResp>>
  /\ UNCHANGED vars

\* GET /api/stats: the same
GetStats(h) ==
  /\ Arrives(h)
  /\ handlers' = [handlers EXCEPT ![h] = [kind |-> "stats", at |-> 1, id |-> Undefined]]
  /\ UNCHANGED <<mcpServers, objectStatus, dashResp>>
  /\ UNCHANGED vars

\* GET /api/servers/:id/status: 404 if mcpServers[id] is falsy, else the
\* probe of that entry starts
GetServerStatus(h, id) ==
  /\ Arrives(h)
  /\ IF Lookup(mcpServers, id) = "undefined"
     THEN /\ dashResp' = [op |-> "status", status |-> 404,
                          body |-> [error |-> "Server not found"]]
          /\ UNCHANGED handlers
     ELSE /\ handlers' = [handlers EXCEPT ![h] = [kind |-> "status", at |-> 0, id |-> id]]
          /\ UNCHANGED dashResp
  /\ UNCHANGED <<mcpServers, objectStatus>>
  /\ UNCHANGED vars

\* the probe a handler of updateServerStatuses awaits ends: the status of
\* the entry is stored, and the next probe starts or the handler responds
UpdateProbeEnds(h, outcome) ==
  /\ handlers[h].kind \in {"servers", "stats"}
  /\ LET key == ServerKeys[handlers[h].at]
         table == [mcpServers EXCEPT ![key].status = LoopStatus(outcome)]
     IN /\ mcpServers' = table
        /\ IF handlers[h].at < Len(ServerKeys)
           THEN /\ handlers' = [handlers EXCEPT ![h].at = @ + 1]
                /\ UNCHANGED dashResp
           ELSE /\ handlers' = [handlers EXCEPT ![h] = Idle]
                /\ dashResp' = IF handlers[h].kind = "stats"
                               THEN [op |-> "stats", status |-> 200, body |-> StatsBody(table)]
                               ELSE [op |-> "servers", status |-> 200, body |-> table]
  /\ UNCHANGED <<objectStatus, dashServed>>
  /\ UNCHANGED vars

\* the probe of GET /api/servers/:id/status ends: server.status is assigned,
\* on the entry, or on the value inherited from Object.prototype, which has
\* no url, so that its probe can only be rejected
StatusProbeEnds(h, outcome) ==
  /\ handlers[h].kind = "status"
  /\ LET id == handlers[h].id
     IN IF Lookup(mcpServers, id) = "own"
        THEN /\ mcpServers' = [mcpServers EXCEPT ![id].status = CheckServerHealth(outcome)]
             /\ dashResp' = [op |-> "status", status |-> 200,
                             body |-> [id |-> id, status |-> CheckServerHealth(outcome)]]
             /\ UNCHANGED objectStatus
        ELSE /\ outcome = "rejected"
             /\ objectStatus' = CheckServerHealth(outcome)
             /\ dashResp' = [op |-> "status", status |-> 200,
                             body |-> [id |-> id, status |-> CheckServerHealth(outcome)]]
             /\ UNCHANGED mcpServers
  /\ handlers' = [handlers EXCEPT ![h] = Idle]
  /\ UNCHANGED dashServed
  /\ UNCHANGED vars

NextDashboard ==
  \/ \E h \in Slots : GetServers(h)
  \/ \E h \in Slots : GetStats(h)
  \/ \E h \in Slots, id \in DashIds : GetServerStatus(h, id)
  \/ \E h \in Slots, outcome \in ProbeOutcomes : UpdateProbeEnds(h, outcome)
  \/ \E h \in Slots, outcome \in ProbeOutcomes : StatusProbeEnds(h, outcome)

InitDashboard == Init /\ budget.quiet = 0

SpecDashboard == InitDashboard /\ [][NextDashboard]_<<dvars, vars>>

(***************************************************************************)
(* C27: in the dashboard, whatever the interleaving of concurrent          *)
(* /api/servers, /api/stats and /api/servers/<id>/status handlers, the     *)
(* status of every configured server is one of unknown, healthy,           *)
(* unhealthy (never error), the set of configured servers is the one of    *)
(* construction, and every /api/stats response has healthyServers +        *)
(* unhealthyServers = totalServers, the number of configured servers.      *)
(***************************************************************************)
C27_DashboardStatuses ==
  /\ \A k \in DOMAIN mcpServers :
       mcpServers[k].status \in {"unknown", "healthy", "unhealthy"}
  /\ DOMAIN mcpServers = Configured
  /\ dashResp.op = "stats"
     => /\ dashResp.body.healthyServers + dashResp.body.unhealthyServers
             = dashResp.body.totalServers
        /\ dashResp.body.totalServers = Len(ServerKeys)
        /\ dashResp.body.healthyServers >= 0
        /\ dashResp.body.unhealthyServers >= 0

C27_Witness ==
  /\ dashResp.op = "stats"
  /\ dashResp.body.healthyServers = 4
  /\ dashResp.body.unhealthyServers = 2
  /\ \E h \in Slots : handlers[h].kind = "servers" /\ handlers[h].at = 3
  /\ mcpServers["github"].status = "unhealthy"
  /\ mcpServers["web"].status = "healthy"
  /\ objectStatus = "unhealthy"
  /\ dashServed = MaxDashRequests

====
